---- MODULE Spec2Model ----
(***************************************************************************)
(* Model of api/GeneratePdfSendEmail/index.js: the HTTP-triggered handler  *)
(* that normalises a SWMS form body, draws a one-page PDF with pdf-lib and *)
(* mails it through the Azure Communication Services email client.         *)
(*                                                                         *)
(* JavaScript values are records [t |-> type, s |-> string form]; the      *)
(* string form is what String(v) and template literals produce.  Lengths   *)
(* on the page are in hundredths of a PDF point (841.89 pt = 84189).       *)
(***************************************************************************)
EXTENDS Integers, Sequences, FiniteSets, TLC

\* ---------------------------------------------------------------- bounds
MaxFields == 2      \* a request body carries at most this many keys
MaxImgDim == 2      \* decoded signature images are at most this wide/high

\* ------------------------------------------------------- JavaScript values
Undef == [t |-> "undefined", s |-> "undefined"]
Null == [t |-> "null", s |-> "null"]
Str(x) == [t |-> "string", s |-> x]
Num(x) == [t |-> "number", s |-> x]
EmptyArr == [t |-> "array", s |-> ""]

\* ToBoolean, as used by !x and x || y
Truthy(v) ==
  CASE v.t = "undefined" -> FALSE
    [] v.t = "null" -> FALSE
    [] v.t = "string" -> v.s # ""
    [] v.t = "number" -> v.s \notin {"0", "NaN"}
    [] OTHER -> TRUE

\* a || b
Or(a, b) == IF Truthy(a) THEN a ELSE b

\* String(v): the value becomes a string holding its string form
String(v) == Str(v.s)

\* ${v} inside a template literal
Interp(v) == v.s

\* ----------------------------------------------------------- string helpers
\* Characters of the sample signature strings (TLA+ strings are atomic, so
\* the strings that the handler slices are spelled out here).
DataPrefix == <<"d","a","t","a",":">>
B64Suffix == <<";","b","a","s","e","6","4">>
PngUrl == "data:image/png;base64,P"
JpgUrl == "data:image/jpeg;base64,J"
GifUrl == "data:image/gif;base64,G"
BadPngUrl == "data:image/png;base64,!"
NoCommaUrl == "data:image/png;base64"
Chars(str) ==
  CASE str = PngUrl -> DataPrefix \o <<"i","m","a","g","e","/","p","n","g">> \o B64Suffix \o <<",","P">>
    [] str = JpgUrl -> DataPrefix \o <<"i","m","a","g","e","/","j","p","e","g">> \o B64Suffix \o <<",","J">>
    [] str = GifUrl -> DataPrefix \o <<"i","m","a","g","e","/","g","i","f">> \o B64Suffix \o <<",","G">>
    [] str = BadPngUrl -> DataPrefix \o <<"i","m","a","g","e","/","p","n","g">> \o B64Suffix \o <<",","!">>
    [] str = NoCommaUrl -> DataPrefix \o <<"i","m","a","g","e","/","p","n","g">> \o B64Suffix
    [] OTHER -> << >>

\* String.prototype.indexOf for a single character, 0-based, -1 if absent
IndexOf(cs, c) ==
  IF \E i \in 1..Len(cs) : cs[i] = c
  THEN (CHOOSE i \in 1..Len(cs) : cs[i] = c /\ \A j \in 1..(i-1) : cs[j] # c) - 1
  ELSE -1

\* String.prototype.slice(from, to): negative indices count from the end
Clamp(i, n) == IF i < 0 THEN (IF n + i < 0 THEN 0 ELSE n + i) ELSE (IF i > n THEN n ELSE i)
Slice(cs, from, to) == SubSeq(cs, Clamp(from, Len(cs)) + 1, Clamp(to, Len(cs)))
SliceFrom(cs, from) == Slice(cs, from, Len(cs))

\* String.prototype.includes
Includes(cs, sub) ==
  \E i \in 1..(Len(cs) - Len(sub) + 1) : SubSeq(cs, i, i + Len(sub) - 1) = sub

\* Buffer.from(x, 'base64'): never throws, characters outside the base64
\* alphabet are dropped.  Each remaining symbol stands for a block of bytes.
NonBase64 == {":", ";", ",", "!"}
DecodeBase64(cs) == SelectSeq(cs, LAMBDA c : c \notin NonBase64)

\* pdf-lib accepts the bytes only if they are an image of the right format
ValidPng(bytes) == bytes = <<"P">>
ValidJpg(bytes) == bytes = <<"J">>


\* ------------------------------------------------------------ page geometry
PageHeight == 84189      \* 841.89 pt
margin == 4000           \* 40 pt
fontSize == 1200         \* 12 pt
LineGap == 600           \* the 6 of `fontSize + 6`
LabelGap == 1000         \* the blank line before "Signature:"
sigWidth == 20000        \* 200 pt
RuleLength == 20000      \* margin + 200
RuleAdvance == 2000      \* 20 pt
ImageGap == 1000         \* the 10 of `sigHeight + 10`
LineAdvanceNoGap == fontSize

\* yPos -= fontSize + 6
LineAdvance == fontSize + LineGap

\* ------------------------------------------------------------ request inputs
Keys == <<"taskName", "job_description", "task", "location", "job_location",
          "name", "site_manager", "pc_representative", "submitted_by",
          "email", "manager_email", "date", "date_provided",
          "company", "phone", "swmsId", "notes", "signatureDataUrl">>

\* the values a key takes when the body carries it
Options(k) ==
  CASE k = "taskName" -> {Str("Roof work"), Str(""), Num("0"), Null}
    [] k = "job_description" -> {Str("Dig trench"), Num("5")}
    [] k = "task" -> {Str("Weld"), Num("0")}
    [] k = "location" -> {Str("Sydney"), Str("")}
    [] k = "job_location" -> {Str("Perth")}
    [] k = "name" -> {Str("Jane"), Null}
    [] k = "site_manager" -> {Str("Sam")}
    [] k = "pc_representative" -> {Str("Pat")}
    [] k = "submitted_by" -> {Str("Bob")}
    [] k = "email" -> {Str("jane@x.com"), Str(""), EmptyArr}
    [] k = "manager_email" -> {Str("mgr@x.com")}
    [] k = "date" -> {Str("2024-01-31")}
    [] k = "date_provided" -> {Str("2024-02-01")}
    [] k = "company" -> {Str("T2D")}
    [] k = "phone" -> {Num("5")}
    [] k = "swmsId" -> {Str("SW-1")}
    [] k = "notes" -> {Str("none")}
    [] k = "signatureDataUrl" ->
         {Str(""), Str(PngUrl), Str(JpgUrl), Str(GifUrl), Str(BadPngUrl), Str(NoCommaUrl)}

\* value lists for Keys[i..], with at most n keys present
RECURSIVE ValueLists(_, _)
ValueLists(i, n) ==
  IF i > Len(Keys) THEN {<< >>}
  ELSE {<<Undef>> \o r : r \in ValueLists(i + 1, n)}
       \cup (IF n = 0 THEN {}
             ELSE {<<v>> \o r : v \in Options(Keys[i]), r \in ValueLists(i + 1, n - 1)})

KeyIndex(k) == CHOOSE i \in 1..Len(Keys) : Keys[i] = k
Bodies == {[k \in {Keys[i] : i \in 1..Len(Keys)} |-> l[KeyIndex(k)]] : l \in ValueLists(1, MaxFields)}
EmptyBody == [k \in {Keys[i] : i \in 1..Len(Keys)} |-> Undef]

\* process.env: a setting is unset, empty or a string
Envs ==
  [COMMUNICATION_SERVICES_CONNECTION_STRING : {Undef, Str("endpoint=https://acs;accesskey=k")},
   EMAIL_SENDER : {Undef, Str(""), Str("noreply@t2d.com")},
   EMAIL_RECIPIENT : {Undef, Str(""), Str("admin@t2d.com")}]

Today == "2026-11-05"        \* new Date().toISOString().slice(0, 10)
NowMillis == "1793923200000" \* Date.now()

\* what a library call can throw: an Error with a message, or one without
LibErrors == {Str("pdf-lib failure"), Undef}
\* what emailClient.send can reject with
SendErrors == {Str("Email address is not verified"), Str("")}
\* what emailClient.send can resolve to: undefined, or a result object
SendResults == {[defined |-> FALSE, messageId |-> Undef],
                [defined |-> TRUE, messageId |-> Undef],
                [defined |-> TRUE, messageId |-> Str("")],
                [defined |-> TRUE, messageId |-> Str("msg-001")]}


\* ------------------------------------------------------------------- state
VARIABLES
  env,        \* process.env
  hasBody,    \* whether req.body is set
  reqBody,    \* req.body
  pc,         \* the statement the handler is at
  data,       \* the picked and defaulted record
  doc,        \* what exists of the PDF: "none", "created", "page", "font", "saved"
  yPos,       \* the vertical cursor
  ops,        \* the drawing operations applied to the page, in order
  fieldIdx,   \* the next drawLine call, 1..9
  image,      \* the embedded signature image
  message,    \* the email message built at lines 145-169
  sent,       \* the messages passed to emailClient.send
  result,     \* what send resolved to
  err,        \* err.message of the error caught at line 181
  thrownAt,   \* the stage that threw it
  warnings,   \* context.log.warn calls
  res         \* the values assigned to context.res, in order

vars == <<env, hasBody, reqBody, pc, data, doc, yPos, ops, fieldIdx, image,
          message, sent, result, err, thrownAt, warnings, res>>

PickedKeys == <<"taskName", "location", "name", "email", "company", "phone",
                "date", "swmsId", "notes", "signatureDataUrl">>
Labels == <<"Task", "Location", "Name", "Email", "Company", "Phone", "Date", "SWMS ID", "Notes">>
FieldKeys == <<"taskName", "location", "name", "email", "company", "phone", "date", "swmsId", "notes">>

NoData == [k \in {PickedKeys[i] : i \in 1..Len(PickedKeys)} |-> Undef]
NoImage == [width |-> 0, height |-> 0]
NoMessage == [sender |-> Undef, subject |-> "", toRecipients |-> << >>, attachments |-> << >>]
NoResult == [defined |-> FALSE, messageId |-> Undef]

\* const body = req.body || {}
Body == IF hasBody THEN reqBody ELSE EmptyBody

Init ==
  /\ env \in Envs
  /\ hasBody \in BOOLEAN
  /\ reqBody \in (IF hasBody THEN Bodies ELSE {EmptyBody})
  /\ pc = "config"
  /\ data = NoData
  /\ doc = "none"
  /\ yPos = 0
  /\ ops = << >>
  /\ fieldIdx = 1
  /\ image = NoImage
  /\ message = NoMessage
  /\ sent = << >>
  /\ result = NoResult
  /\ err = Undef
  /\ thrownAt = "none"
  /\ warnings = 0
  /\ res = << >>

\* throw new Error(msg), or a rejected await: control moves to the catch block
Throw(stage, msg) ==
  /\ pc' = "catch"
  /\ err' = msg
  /\ thrownAt' = stage

\* ------------------------------------------------------------ configuration
ConfigErrorSenderUnchecked(e) ==
  IF ~Truthy(e.COMMUNICATION_SERVICES_CONNECTION_STRING)
  THEN Str("Missing COMMUNICATION_SERVICES_CONNECTION_STRING app setting")
  ELSE Undef

\* the message of the error lines 44-49 throw, undefined when they throw none
ConfigError(e) ==
  IF ~Truthy(e.COMMUNICATION_SERVICES_CONNECTION_STRING)
  THEN Str("Missing COMMUNICATION_SERVICES_CONNECTION_STRING app setting")
  ELSE IF ~Truthy(e.EMAIL_SENDER)
  THEN Str("Missing EMAIL_SENDER app setting")
  ELSE Undef

CheckConfig ==
  /\ pc = "config"
  /\ IF ConfigError(env) # Undef
     THEN Throw("config", ConfigError(env))
     ELSE /\ pc' = "normalize"
          /\ UNCHANGED <<err, thrownAt>>
  /\ UNCHANGED <<env, hasBody, reqBody, data, doc, yPos, ops, fieldIdx, image,
                 message, sent, result, warnings, res>>

\* ------------------------------------------------------------ normalisation
\* pick(obj, keys): String(val) for every key whose value is not undefined/null
pick(obj, keys) ==
  [k \in {keys[i] : i \in 1..Len(keys)} |->
     IF obj[k].t \in {"undefined", "null"} THEN Undef ELSE String(obj[k])]

\* lines 53-73
Normalized(body, e) ==
  LET d == pick(body, PickedKeys) IN
  [d EXCEPT
     !["taskName"] = Or(Or(Or(d["taskName"], body["job_description"]), body["task"]), Str("SWMS Task")),
     !["location"] = Or(Or(Or(d["location"], body["job_location"]), body["location"]), Str("Unknown location")),
     !["name"] = Or(Or(Or(Or(d["name"], body["site_manager"]), body["pc_representative"]), body["submitted_by"]), Str("User")),
     !["email"] = Or(Or(Or(d["email"], body["email"]), body["manager_email"]), e.EMAIL_RECIPIENT),
     !["date"] = Or(Or(d["date"], body["date_provided"]), Str(Today))]

Normalize ==
  /\ pc = "normalize"
  /\ data' = Normalized(Body, env)
  /\ pc' = "validate"
  /\ UNCHANGED <<env, hasBody, reqBody, doc, yPos, ops, fieldIdx, image,
                 message, sent, result, err, thrownAt, warnings, res>>

\* lines 75-77
Validate ==
  /\ pc = "validate"
  /\ IF ~Truthy(data["email"])
     THEN Throw("validation", Str("An email address must be provided either in the form or via EMAIL_RECIPIENT"))
     ELSE /\ pc' = "create"
          /\ UNCHANGED <<err, thrownAt>>
  /\ UNCHANGED <<env, hasBody, reqBody, data, doc, yPos, ops, fieldIdx, image,
                 message, sent, result, warnings, res>>


\* ------------------------------------------------------------- PDF drawing
\* await PDFDocument.create()
CreateDocument ==
  /\ pc = "create"
  /\ \/ /\ doc' = "created"
        /\ pc' = "addPage"
        /\ UNCHANGED <<err, thrownAt>>
     \/ /\ \E e \in LibErrors : Throw("render", e)
        /\ UNCHANGED doc
  /\ UNCHANGED <<env, hasBody, reqBody, data, yPos, ops, fieldIdx, image,
                 message, sent, result, warnings, res>>

\* pdfDoc.addPage([595.28, 841.89]); page.getSize()
AddPage ==
  /\ pc = "addPage"
  /\ \/ /\ doc' = "page"
        /\ pc' = "embedFont"
        /\ UNCHANGED <<err, thrownAt>>
     \/ /\ \E e \in LibErrors : Throw("render", e)
        /\ UNCHANGED doc
  /\ UNCHANGED <<env, hasBody, reqBody, data, yPos, ops, fieldIdx, image,
                 message, sent, result, warnings, res>>

\* let yPos = height - margin
StartY == PageHeight - margin

\* await pdfDoc.embedFont(StandardFonts.Helvetica); let yPos = height - margin
EmbedFont ==
  /\ pc = "embedFont"
  /\ \/ /\ doc' = "font"
        /\ yPos' = StartY
        /\ pc' = "fields"
        /\ UNCHANGED <<err, thrownAt>>
     \/ /\ \E e \in LibErrors : Throw("render", e)
        /\ UNCHANGED <<doc, yPos>>
  /\ UNCHANGED <<env, hasBody, reqBody, data, ops, fieldIdx, image,
                 message, sent, result, warnings, res>>

\* `${label}: ${value || ''}`
LineText(label, value) == label \o ": " \o Interp(Or(value, Str("")))

TextOp(text, y) == [kind |-> "text", text |-> text, x |-> margin, y |-> y, w |-> 0, h |-> 0]

\* one drawLine(label, value) call of lines 97-105
DrawField ==
  /\ pc = "fields"
  /\ \/ /\ ops' = Append(ops, TextOp(LineText(Labels[fieldIdx], data[FieldKeys[fieldIdx]]), yPos))
        /\ yPos' = yPos - LineAdvance
        /\ fieldIdx' = fieldIdx + 1
        /\ pc' = IF fieldIdx = Len(FieldKeys) THEN "label" ELSE "fields"
        /\ UNCHANGED <<err, thrownAt>>
     \/ /\ \E e \in LibErrors : Throw("render", e)
        /\ UNCHANGED <<ops, yPos, fieldIdx>>
  /\ UNCHANGED <<env, hasBody, reqBody, data, doc, image,
                 message, sent, result, warnings, res>>

\* lines 108-110: a blank line, the "Signature:" label, one line down
DrawSignatureLabel ==
  /\ pc = "label"
  /\ \/ /\ ops' = Append(ops, TextOp("Signature:", yPos - LabelGap))
        /\ yPos' = yPos - LabelGap - LineAdvance
        /\ pc' = "signature"
        /\ UNCHANGED <<err, thrownAt>>
     \/ /\ \E e \in LibErrors : Throw("render", e)
        /\ UNCHANGED <<ops, yPos>>
  /\ UNCHANGED <<env, hasBody, reqBody, data, doc, fieldIdx, image,
                 message, sent, result, warnings, res>>

\* data.signatureDataUrl && typeof data.signatureDataUrl === 'string'
HasSignature(d) == Truthy(d["signatureDataUrl"]) /\ d["signatureDataUrl"].t = "string"

\* lines 115-124: which embedder the mime part selects and whether it accepts
\* the decoded bytes
SignatureMime(url) == Slice(Chars(url), 5, IndexOf(Chars(url), ","))
SignatureBytes(url) == DecodeBase64(SliceFrom(Chars(url), IndexOf(Chars(url), ",") + 1))
EmbedSucceeds(url) ==
  IF Includes(SignatureMime(url), <<"p", "n", "g">>)
  THEN ValidPng(SignatureBytes(url))
  ELSE ValidJpg(SignatureBytes(url))

SignatureRethrowPc == "catch"

\* where control continues after the catch block of lines 129-132
SignatureCatchPc == "save"

\* lines 113-124: the embedding attempt; a failure is logged and skipped
EmbedSignature ==
  /\ pc = "signature"
  /\ HasSignature(data)
  /\ IF EmbedSucceeds(data["signatureDataUrl"].s)
     THEN /\ \E iw \in 1..MaxImgDim, ih \in 1..MaxImgDim : image' = [width |-> iw, height |-> ih]
          /\ pc' = "drawImage"
          /\ UNCHANGED warnings
     ELSE /\ warnings' = warnings + 1
          /\ pc' = SignatureCatchPc
          /\ UNCHANGED image
  /\ UNCHANGED <<env, hasBody, reqBody, data, doc, yPos, ops, fieldIdx,
                 message, sent, result, err, thrownAt, res>>

\* (image.height / image.width) * sigWidth, rounded down to 1/100 pt
sigHeight(img) == (img.height * sigWidth) \div img.width

\* lines 125-128, still inside the try block
DrawImage ==
  /\ pc = "drawImage"
  /\ \/ /\ ops' = Append(ops, [kind |-> "image", text |-> "", x |-> margin,
                               y |-> yPos - sigHeight(image), w |-> sigWidth, h |-> sigHeight(image)])
        /\ yPos' = yPos - (sigHeight(image) + ImageGap)
        /\ pc' = "save"
        /\ UNCHANGED warnings
     \/ /\ warnings' = warnings + 1
        /\ pc' = SignatureCatchPc
        /\ UNCHANGED <<ops, yPos>>
  /\ UNCHANGED <<env, hasBody, reqBody, data, doc, fieldIdx, image,
                 message, sent, result, err, thrownAt, res>>

\* lines 133-137: no signature, a rule in its place
DrawRule ==
  /\ pc = "signature"
  /\ ~HasSignature(data)
  /\ \/ /\ ops' = Append(ops, [kind |-> "line", text |-> "", x |-> margin,
                               y |-> yPos, w |-> RuleLength, h |-> 0])
        /\ yPos' = yPos - RuleAdvance
        /\ pc' = "save"
        /\ UNCHANGED <<err, thrownAt>>
     \/ /\ \E e \in LibErrors : Throw("render", e)
        /\ UNCHANGED <<ops, yPos>>
  /\ UNCHANGED <<env, hasBody, reqBody, data, doc, fieldIdx, image,
                 message, sent, result, warnings, res>>

\* await pdfDoc.save()
SavePdf ==
  /\ pc = "save"
  /\ \/ /\ doc' = "saved"
        /\ pc' = "build"
        /\ UNCHANGED <<err, thrownAt>>
     \/ /\ \E e \in LibErrors : Throw("render", e)
        /\ UNCHANGED doc
  /\ UNCHANGED <<env, hasBody, reqBody, data, yPos, ops, fieldIdx, image,
                 message, sent, result, warnings, res>>


\* ------------------------------------------------------------------- email
AdminAddressSenderOnly(e) == e.EMAIL_SENDER

\* process.env.EMAIL_RECIPIENT || sender
AdminAddress(e) == Or(e.EMAIL_RECIPIENT, e.EMAIL_SENDER)

AttachmentsForgotten(drawn) == << >>

\* lines 162-168: the saved document, base64-encoded, as the only attachment
Attachments(drawn) ==
  <<[name |-> "swms-" \o NowMillis \o ".pdf",
     contentType |-> "application/pdf",
     contentBytes |-> [base64 |-> drawn]]>>

\* lines 145-169
Message(d, e, drawn) ==
  [sender |-> e.EMAIL_SENDER,
   subject |-> "SWMS Form Submission: " \o Interp(d["taskName"]),
   toRecipients |-> <<[address |-> d["email"], displayName |-> d["name"]],
                      [address |-> AdminAddress(e), displayName |-> Str("SWMS Admin")]>>,
   attachments |-> Attachments(drawn)]

\* lines 143-169: new EmailClient(connStr) and the message literal
BuildMessage ==
  /\ pc = "build"
  /\ \/ /\ message' = Message(data, env, ops)
        /\ pc' = "send"
        /\ UNCHANGED <<err, thrownAt>>
     \/ /\ \E e \in LibErrors : Throw("client", e)
        /\ UNCHANGED message
  /\ UNCHANGED <<env, hasBody, reqBody, data, doc, yPos, ops, fieldIdx, image,
                 sent, result, warnings, res>>

\* await emailClient.send(message)
Send ==
  /\ pc = "send"
  /\ sent' = Append(sent, message)
  /\ \/ /\ \E r \in SendResults : result' = r
        /\ pc' = "respond"
        /\ UNCHANGED <<err, thrownAt>>
     \/ /\ \E e \in SendErrors : Throw("delivery", e)
        /\ UNCHANGED result
  /\ UNCHANGED <<env, hasBody, reqBody, data, doc, yPos, ops, fieldIdx, image,
                 message, warnings, res>>

\* lines 174-180; result?.messageId || null
SuccessResponse(r) ==
  [status |-> 200,
   body |-> [message |-> Str("Email sent successfully"),
             id |-> Or(IF r.defined THEN r.messageId ELSE Undef, Null)]]

Respond ==
  /\ pc = "respond"
  /\ res' = Append(res, SuccessResponse(result))
  /\ pc' = "done"
  /\ UNCHANGED <<env, hasBody, reqBody, data, doc, yPos, ops, fieldIdx, image,
                 message, sent, result, err, thrownAt, warnings>>

ErrorResponseOk(m) == [status |-> 200, body |-> [error |-> Or(m, Str("An error occurred"))]]

ErrorResponseGeneric(m) == [status |-> 500, body |-> [error |-> Str("An error occurred")]]

\* lines 184-189; err.message || "An error occurred"
ErrorResponse(m) == [status |-> 500, body |-> [error |-> Or(m, Str("An error occurred"))]]

\* lines 181-190
Catch ==
  /\ pc = "catch"
  /\ res' = Append(res, ErrorResponse(err))
  /\ pc' = "done"
  /\ UNCHANGED <<env, hasBody, reqBody, data, doc, yPos, ops, fieldIdx, image,
                 message, sent, result, err, thrownAt, warnings>>

Next ==
  \/ CheckConfig
  \/ Normalize
  \/ Validate
  \/ CreateDocument
  \/ AddPage
  \/ EmbedFont
  \/ DrawField
  \/ DrawSignatureLabel
  \/ EmbedSignature
  \/ DrawImage
  \/ DrawRule
  \/ SavePdf
  \/ BuildMessage
  \/ Send
  \/ Respond
  \/ Catch

Spec == Init /\ [][Next]_vars


\* ------------------------------------------------------------ shared notions
Done == pc = "done"
ConfigMissing ==
  \/ ~Truthy(env.COMMUNICATION_SERVICES_CONNECTION_STRING)
  \/ ~Truthy(env.EMAIL_SENDER)
ConfigMessages == {Str("Missing COMMUNICATION_SERVICES_CONNECTION_STRING app setting"),
                   Str("Missing EMAIL_SENDER app setting")}
\* a value that is an address at all: not missing, not "", not an empty list
NonEmpty(v) == v.t \notin {"undefined", "null"} /\ v.s # ""

\* C1: with a required setting unset or empty the response is 500 with a
\* message naming the missing setting, and neither the PDF nor send is touched,
\* whatever the body.
C1_ConfigShortCircuit ==
  ConfigMissing =>
    /\ doc = "none"
    /\ ops = << >>
    /\ sent = << >>
    /\ pc \in {"config", "catch", "done"}
    /\ Done => /\ Len(res) = 1
               /\ res[1].status = 500
               /\ res[1].body.error \in ConfigMessages

C1_Witness ==
  /\ Done
  /\ Truthy(env.COMMUNICATION_SERVICES_CONNECTION_STRING)
  /\ env.EMAIL_SENDER = Str("")
  /\ hasBody
  /\ reqBody["email"] = Str("jane@x.com")
  /\ res[1].status = 500

\* C2 (as claimed): past the configuration check the normalised email is
\* non-empty or the request is rejected with the validation message before any
\* PDF work, and every message passed to send has a non-empty first address.
C2_EmailNonEmptyOrRejected ==
  /\ (~ConfigMissing /\ pc \notin {"config", "normalize", "validate"}) =>
       \/ NonEmpty(data["email"])
       \/ /\ thrownAt = "validation"
          /\ doc = "none"
          /\ sent = << >>
          /\ Done => res[1].status = 500
  /\ \A i \in 1..Len(sent) : NonEmpty(sent[i].toRecipients[1].address)

\* the first value in `keys` that is present and non-null, as a string
RECURSIVE FirstPresent(_, _, _)
FirstPresent(body, keys, default) ==
  IF keys = << >> THEN Str(default)
  ELSE IF body[Head(keys)].t \notin {"undefined", "null"} THEN String(body[Head(keys)])
  ELSE FirstPresent(body, Tail(keys), default)

\* C3 (as claimed): each of taskName, location and name is the first present,
\* non-null value of its key list, coerced to a string, and the default
\* literal only when no listed key has one.
C3_FirstPresentWins ==
  (pc \notin {"config", "normalize"} /\ ~ConfigMissing) =>
    /\ data["taskName"] = FirstPresent(Body, <<"taskName", "job_description", "task">>, "SWMS Task")
    /\ data["location"] = FirstPresent(Body, <<"location", "job_location">>, "Unknown location")
    /\ data["name"] = FirstPresent(Body, <<"name", "site_manager", "pc_representative", "submitted_by">>, "User")


\* the three kinds of malformed signature the model submits
MalformedUrls == {GifUrl, BadPngUrl, NoCommaUrl}
\* the handler has left the signature block of lines 113-137 behind
PastSignature == \/ pc \in {"save", "build", "send", "respond"}
                 \/ doc = "saved"
OnePdfAttachment(m) ==
  /\ Len(m.attachments) = 1
  /\ m.attachments[1].contentType = "application/pdf"
  /\ m.attachments[1].contentBytes = [base64 |-> ops]

\* C4: a malformed signature (unsupported mime type, undecodable base64, no
\* comma) fails to embed, and that failure never reaches the catch block: the
\* handler goes on to save and send, and answers 200 when nothing else fails.
C4_SignatureFailureSwallowed ==
  /\ (HasSignature(data) /\ data["signatureDataUrl"].s \in MalformedUrls /\ PastSignature) =>
       /\ warnings = 1
       /\ Len(ops) = 10
  /\ warnings > 0 =>
       /\ pc \in {"save", "build", "send", "respond", "catch", "done"}
       /\ pc = "catch" => thrownAt \in {"render", "client", "delivery"}
       /\ thrownAt = "render" => Len(ops) = 10
       /\ pc \in {"build", "send", "respond"} => doc = "saved"
       /\ \A i \in 1..Len(sent) : doc = "saved" /\ OnePdfAttachment(sent[i])
       /\ Done =>
            \/ /\ thrownAt = "none"
               /\ Len(sent) = 1
               /\ res[1].status = 200
            \/ /\ thrownAt \in {"render", "client"}
               /\ sent = << >>
            \/ /\ thrownAt = "delivery"
               /\ Len(sent) = 1

C4_Witness ==
  /\ Done
  /\ data["signatureDataUrl"] = Str(NoCommaUrl)
  /\ warnings = 1
  /\ Len(sent) = 1
  /\ res[1].status = 200

\* C5: a request ends with exactly one response, 200 or 500; it is 200 exactly
\* when send was invoked and did not reject; every failure gives 500 with a
\* body { error: message }; and the handler can always take its next step
\* until it has responded.
C5_OneResponse ==
  /\ Len(res) <= 1
  /\ Done <=> Len(res) = 1
  /\ Done \/ ENABLED Next
  /\ Done =>
       /\ res[1].status \in {200, 500}
       /\ res[1].status = 200 <=> (Len(sent) = 1 /\ thrownAt # "delivery")
       /\ thrownAt # "none" => res[1].status = 500
       /\ res[1].status = 500 =>
            /\ DOMAIN res[1].body = {"error"}
            /\ res[1].body.error.t = "string"
            /\ res[1].body.error.s # ""

C5_Witness ==
  /\ Done
  /\ thrownAt = "render"
  /\ doc = "font"
  /\ res[1].status = 500

\* C6 (as claimed): when send rejects, the response is 500 and its error is
\* the provider's message; send is invoked at most once.
C6_ProviderMessageVerbatim ==
  /\ Len(sent) <= 1
  /\ (Done /\ thrownAt = "delivery") =>
       /\ res[1].status = 500
       /\ res[1].body.error = err

\* C6 (amended): when send rejects, the response is 500 and its error is the
\* provider's message if that is non-empty, else "An error occurred"; send is
\* invoked at most once.
C6_ProviderMessageOrDefault ==
  /\ Len(sent) <= 1
  /\ (Done /\ thrownAt = "delivery") =>
       /\ Len(sent) = 1
       /\ res[1].status = 500
       /\ res[1].body.error = (IF err.s # "" THEN err ELSE Str("An error occurred"))

C6_Witness ==
  /\ Done
  /\ thrownAt = "delivery"
  /\ err = Str("Email address is not verified")
  /\ Len(sent) = 1

\* C7: a failure while generating the document gives 500 and no send; send is
\* only invoked once all nine fields and the label are drawn and the document
\* is saved, and the message carries exactly one application/pdf attachment.
C7_RenderFailureFatal ==
  /\ thrownAt = "render" =>
       /\ sent = << >>
       /\ doc # "saved"
       /\ Done => res[1].status = 500
  /\ \A i \in 1..Len(sent) :
       /\ doc = "saved"
       /\ fieldIdx = Len(FieldKeys) + 1
       /\ Len(ops) >= Len(FieldKeys) + 1
       /\ OnePdfAttachment(sent[i])

C7_Witness ==
  /\ Done
  /\ thrownAt = "render"
  /\ Len(ops) = 11
  /\ res[1].status = 500

\* C8 (as claimed): after a successful send the response is 200 with body
\* { message, messageId }, message non-empty and messageId the provider's
\* identifier if the result has one, else null.
C8_SuccessBody ==
  (Done /\ Len(sent) = 1 /\ thrownAt = "none") =>
    /\ res[1].status = 200
    /\ DOMAIN res[1].body = {"message", "messageId"}
    /\ NonEmpty(res[1].body.message)
    /\ res[1].body.messageId = (IF result.defined /\ NonEmpty(result.messageId)
                                THEN result.messageId ELSE Null)


\* C9: every message passed to send has the subject "SWMS Form Submission: "
\* + taskName and exactly two recipients: the resolved email under the
\* submitter's name, then the admin at EMAIL_RECIPIENT, or at the sender when
\* none is configured; equal addresses are both kept.
C9_SubjectAndRecipients ==
  \A i \in 1..Len(sent) :
    LET m == sent[i] IN
    /\ m.subject = "SWMS Form Submission: " \o data["taskName"].s
    /\ (hasBody /\ reqBody["taskName"] = Str("Roof work")) =>
         m.subject = "SWMS Form Submission: Roof work"
    /\ Len(m.toRecipients) = 2
    /\ m.toRecipients[1].address = data["email"]
    /\ m.toRecipients[1].displayName = data["name"]
    /\ m.toRecipients[2].address =
         (IF env.EMAIL_RECIPIENT \in {Undef, Str("")} THEN env.EMAIL_SENDER ELSE env.EMAIL_RECIPIENT)
    /\ (Body = EmptyBody /\ env.EMAIL_RECIPIENT \notin {Undef, Str("")}) =>
         /\ m.toRecipients[1].address = env.EMAIL_RECIPIENT
         /\ m.toRecipients[2].address = env.EMAIL_RECIPIENT
         /\ m.subject = "SWMS Form Submission: SWMS Task"

C9_Witness ==
  /\ Len(sent) = 1
  /\ Body = EmptyBody
  /\ env.EMAIL_RECIPIENT = Str("admin@t2d.com")
  /\ sent[1].toRecipients[1].address = sent[1].toRecipients[2].address

\* what C10 says of the cursor apart from where the rule lands
CursorSteps ==
  /\ pc = "fields" => yPos = StartY - 1800 * (fieldIdx - 1)
  /\ \A i \in 1..Len(ops) :
       i <= 9 => /\ ops[i].kind = "text"
                 /\ ops[i].y = StartY - 1800 * (i - 1)
  /\ Len(ops) >= 10 => ops[10].text = "Signature:"
  /\ Len(ops) = 11 =>
       \/ /\ ops[11].kind = "line"
          /\ ~HasSignature(data)
          /\ ops[11].w = 20000
          /\ yPos = ops[11].y - 2000
       \/ /\ ops[11].kind = "image"
          /\ HasSignature(data)
          /\ warnings = 0
  /\ (~HasSignature(data) /\ PastSignature) => (Len(ops) = 11 /\ ops[11].kind = "line")
  /\ warnings > 0 => (Len(ops) = 10 /\ yPos = ops[10].y - 1800)

\* C10 (as claimed): the cursor starts at pageHeight - margin, never
\* increases, drops by 18 per field line, and the rule for a record without a
\* signature sits where drops of 18 from the start lead.
C10_RuleAtLineMultiple ==
  /\ CursorSteps
  /\ (Len(ops) = 11 /\ ops[11].kind = "line") =>
       \E k \in 0..50 : ops[11].y = StartY - 1800 * k

\* C10 (amended): as above, but the rule sits 190 below the start: nine field
\* lines of 18, a gap of 10 before the "Signature:" label, and 18 for the label.
C10_Cursor ==
  /\ [](/\ CursorSteps
        /\ Len(ops) >= 10 => ops[10].y = StartY - 9 * 1800 - 1000
        /\ (Len(ops) = 11 /\ ops[11].kind = "line") =>
             /\ ops[11].y = StartY - 19000
             /\ yPos = StartY - 21000)
  /\ [][pc # "embedFont" => yPos' <= yPos]_vars

C10_Witness ==
  /\ Done
  /\ Len(ops) = 11
  /\ ops[11].kind = "line"
  /\ res[1].status = 200

====
